---------------------------- MODULE Spec2Model ----------------------------
(***************************************************************************)
(* Model of snow_sensors: two regional fetchers (Alto Adige, Trentino),    *)
(* the retrieve pipeline (fetch, optional upload, concat, export), the     *)
(* Supabase uploader and the command-line entry point.                     *)
(*                                                                         *)
(* A pandas DataFrame is a record [columns, rows]; a row is a record       *)
(* [index, cells], cells a function from the column names to cell values.  *)
(* Every cell value is a string; NULL stands for pandas' missing marker    *)
(* (NaN / NaT) and None for Python's None (row.get of an absent column).   *)
(***************************************************************************)
EXTENDS Integers, Sequences, FiniteSets, TLC

\* ------------------------------------------------------------------ bounds
\* Rows per feed in the fetcher specification (SpecFetch).
MaxRows == 3
\* Rows per feed in a run of the command-line program (Spec).
MaxRunRows == 1
\* Rows per feed behind the two tables that are merged (SpecAggregate).
MaxAggregateRows == 2
\* Rows per table handed to a direct upload call (SpecUpload) or to the
\* export block (SpecExport).
MaxUploadRows == 3

\* ------------------------------------------------------ values and helpers
NULL == "NULL"
None == "None"

Range(s) == {s[i] : i \in DOMAIN s}

SeqsUpTo(S, n) == UNION {[1..k -> S] : k \in 0..n}

\* pd.isna: NaN, NaT and None are missing.
IsNa(v) == v \in {NULL, None}

\* Python truthiness of a cell used as an operand of `or`: None and the
\* empty string are falsy; NaN is a float different from zero, hence truthy.
Truthy(v) == v \notin {None, ""}

\* float(x): text of a number converts, anything else raises ValueError.
NumericText == {"0", "000", "3", "10", "11", "45", "46"}
FloatConvertible(v) == v \in NumericText
Float(v) ==
    CASE v \in {"0", "000"} -> 0
      [] v = "3"    -> 3
      [] v = "10"   -> 10
      [] v = "11"   -> 11
      [] v = "45"   -> 45
      [] v = "46"   -> 46

\* dateutil.parser.parse on the date texts of the feeds: the naive timestamp
\* and the tzinfo it found, or the exception it raises: TypeError for a cell
\* that is not text (a missing cell is a float NaN), OverflowError for a
\* field too large for a C integer (datetime.replace rejects the year; parse
\* turns only ValueError into ParserError), ValueError (ParserError) for any
\* other text it cannot read.
DateutilParse(s) ==
    CASE s = "2025-09-29T11:20:00CEST" ->
             [ok |-> TRUE, ts |-> "2025-09-29 11:20:00", tzinfo |-> None,
              error |-> "none"]
      [] s = "2025-09-29T11:20:00+02:00" ->
             [ok |-> TRUE, ts |-> "2025-09-29 11:20:00", tzinfo |-> "+02:00",
              error |-> "none"]
      [] s = "30/09/2025 00:00:00" ->
             [ok |-> TRUE, ts |-> "2025-09-30 00:00:00", tzinfo |-> None,
              error |-> "none"]
      [] s = NULL ->
             [ok |-> FALSE, ts |-> NULL, tzinfo |-> None, error |-> "TypeError"]
      [] s = "99999999999-01-01" ->
             [ok |-> FALSE, ts |-> NULL, tzinfo |-> None, error |-> "OverflowError"]
      [] OTHER ->
             [ok |-> FALSE, ts |-> NULL, tzinfo |-> None, error |-> "ValueError"]

\* A datetime as the text of a cell: the offset follows the timestamp of an
\* aware one.
Datetime(ts, tzinfo) == IF tzinfo = None THEN ts ELSE ts \o tzinfo

\* parse_date_safe: the parsed date, its tzinfo replaced by None when it has
\* one; NaT when parse raises ValueError or TypeError; any other exception
\* leaves the function.
parse_date_safe(date_str) ==
    LET p == DateutilParse(date_str)
    IN  IF p.ok
        THEN [raised |-> "none",
              value |-> IF p.tzinfo # None
                        THEN Datetime(p.ts, None) ELSE Datetime(p.ts, p.tzinfo)]
        ELSE IF p.error \in {"ValueError", "TypeError"}
        THEN [raised |-> "none", value |-> NULL]
        ELSE [raised |-> p.error, value |-> NULL]

\* ------------------------------------------------------------ data frames
Frame(cols, rows) == [columns |-> cols, rows |-> rows]

Empty(df) == Len(df.rows) = 0

ColumnSet(df) == Range(df.columns)

\* row.get(col): the cell, None when the table has no such column.
Get(row, col) == IF col \in DOMAIN row.cells THEN row.cells[col] ELSE None

\* df.rename(columns=mapping)
Rename(df, mapping) ==
    LET new(c) == IF c \in DOMAIN mapping THEN mapping[c] ELSE c
        old(n) == CHOOSE c \in ColumnSet(df) : new(c) = n
        cols   == [i \in DOMAIN df.columns |-> new(df.columns[i])]
    IN  Frame(cols,
              [i \in DOMAIN df.rows |->
                  [index |-> df.rows[i].index,
                   cells |-> [n \in Range(cols) |-> df.rows[i].cells[old(n)]]]])

\* df[[...]]: the named columns, in the order named.
SelectColumns(df, cols) ==
    Frame(cols,
          [i \in DOMAIN df.rows |->
              [index |-> df.rows[i].index,
               cells |-> [c \in Range(cols) |-> df.rows[i].cells[c]]]])

\* df['date'].apply(parse_date_safe) raises what parse_date_safe lets through
\* on the first row that does ("none" if none does).
ApplyDateParseRaised(df) ==
    LET bad == {i \in DOMAIN df.rows :
                   parse_date_safe(df.rows[i].cells["date"]).raised # "none"}
        first == CHOOSE i \in bad : \A j \in bad : i <= j
    IN  IF "date" \in ColumnSet(df) /\ Len(df.rows) > 0 /\ bad # {}
        THEN parse_date_safe(df.rows[first].cells["date"]).raised
        ELSE "none"

\* df['date'] = df['date'].apply(parse_date_safe), guarded by len(df) > 0.
ApplyDateParse(df) ==
    IF "date" \in ColumnSet(df) /\ Len(df.rows) > 0
    THEN Frame(df.columns,
               [i \in DOMAIN df.rows |->
                   [index |-> df.rows[i].index,
                    cells |-> [df.rows[i].cells EXCEPT
                                  !["date"] = parse_date_safe(@).value]]])
    ELSE df

RECURSIVE JoinRows(_, _, _)
JoinRows(left, right, i) ==
    IF i > Len(left) THEN <<>>
    ELSE LET l == left[i]
             match(r) == r.index = l.index
             hits == SelectSeq(right, match)
         IN  [k \in DOMAIN hits |->
                 [index |-> l.index, cells |-> l.cells @@ hits[k].cells]]
             \o JoinRows(left, right, i + 1)

\* left.join(right, how='inner'): one row per pair of rows with equal index,
\* in the order of the left table.
JoinInner(left, right) ==
    Frame(left.columns \o right.columns, JoinRows(left.rows, right.rows, 1))

\* reset_index(drop=True): the index becomes 0..n-1 and the old one is lost.
ResetIndex(df) ==
    Frame(df.columns,
          [i \in DOMAIN df.rows |-> [index |-> i - 1, cells |-> df.rows[i].cells]])

\* dropna(): rows with a missing value in any column go; the others keep
\* their index labels.
DropNa(df) ==
    LET complete(r) == \A c \in DOMAIN r.cells : ~IsNa(r.cells[c])
    IN  Frame(df.columns, SelectSeq(df.rows, complete))

\* pd.read_csv(body, index_col=index_col)[cols] / pd.read_xml(...).set_index:
\* a parsed feed is a sequence of records, one per data line.
ReadTable(body, index_col, cols) ==
    Frame(cols,
          [i \in DOMAIN body |->
              [index |-> body[i][index_col],
               cells |-> [c \in Range(cols) |-> body[i][c]]]])

\* df[new] = df[src]: a new last column holding a copy of column src.
CopyColumn(df, new, src) ==
    Frame(Append(df.columns, new),
          [i \in DOMAIN df.rows |->
              [index |-> df.rows[i].index,
               cells |-> df.rows[i].cells @@ (new :> df.rows[i].cells[src])]])

\* --------------------------------------------------------------- fetchers
\* AltoAdigeDataFetcher: the measurement feed parsed, renamed, dates parsed.
AltoAdigeParsed(body) ==
    Rename(ReadTable(body, "SCODE", <<"DATE", "VALUE">>),
           ("VALUE" :> "hs") @@ ("DATE" :> "date"))

AltoAdigeReadings(body) == ApplyDateParse(AltoAdigeParsed(body))

AltoAdigeStations(body) ==
    Rename(ReadTable(body, "SCODE", <<"NAME_D", "NAME_I", "NAME_E", "LONG", "LAT">>),
           ("NAME_D" :> "name_de") @@ ("NAME_I" :> "name_it") @@
           ("NAME_E" :> "name_en") @@ ("LONG" :> "longitude") @@
           ("LAT" :> "latitude"))

\* (mutant) the final dropna() forgotten.
AltoAdigeResult_NoDropNa(readings, stationsBody) ==
    ResetIndex(JoinInner(readings, AltoAdigeStations(stationsBody)))

\* The table fetch_snow_depth_data returns.
AltoAdigeResult(readings, stationsBody) ==
    DropNa(ResetIndex(JoinInner(readings, AltoAdigeStations(stationsBody))))

\* TrentinoDataFetcher: every column of the semicolon feed is kept until the
\* final selection.
TrentinoFeedColumns == <<"nome", "DataRilievo", "HS", "HN">>

TrentinoParsed(body) ==
    Rename(ReadTable(body, "codice_campo", TrentinoFeedColumns),
           ("HS" :> "hs") @@ ("HN" :> "hn") @@ ("DataRilievo" :> "date"))

TrentinoReadings(body) == ApplyDateParse(TrentinoParsed(body))

TrentinoStations(body) ==
    CopyColumn(
        CopyColumn(
            Rename(ReadTable(body, "codice", <<"nome", "lat", "lon">>),
                   ("nome" :> "name_it") @@ ("lat" :> "latitude") @@
                   ("lon" :> "longitude")),
            "name_en", "name_it"),
        "name_de", "name_it")

TrentinoColumns ==
    <<"date", "hs", "hn", "name_it", "name_en", "name_de", "longitude", "latitude">>

\* (mutant) a dropna() after the join, as in the Alto Adige fetcher.
TrentinoResult_DropNa(readings, stationsBody) ==
    DropNa(SelectColumns(ResetIndex(JoinInner(readings, TrentinoStations(stationsBody))),
                         TrentinoColumns))

TrentinoResult(readings, stationsBody) ==
    SelectColumns(ResetIndex(JoinInner(readings, TrentinoStations(stationsBody))),
                  TrentinoColumns)

\* (mutant) pd.concat([a, b]) without ignore_index: the rows keep their labels.
Concat_KeepIndex(a, b) ==
    LET extra == SelectSeq(b.columns, LAMBDA c : c \notin ColumnSet(a))
        cols  == a.columns \o extra
        all   == a.rows \o b.rows
    IN  Frame(cols,
              [i \in DOMAIN all |->
                  [index |-> all[i].index,
                   cells |-> [c \in Range(cols) |->
                                 IF c \in DOMAIN all[i].cells
                                 THEN all[i].cells[c] ELSE NULL]]])

\* pd.concat([a, b], ignore_index=True): the rows of a then those of b under a
\* fresh index; the columns are those of a, then those only b has; a column
\* a table lacks is NaN in its rows.
Concat(a, b) ==
    LET extra == SelectSeq(b.columns, LAMBDA c : c \notin ColumnSet(a))
        cols  == a.columns \o extra
        all   == a.rows \o b.rows
    IN  Frame(cols,
              [i \in DOMAIN all |->
                  [index |-> i - 1,
                   cells |-> [c \in Range(cols) |->
                                 IF c \in DOMAIN all[i].cells
                                 THEN all[i].cells[c] ELSE NULL]]])

\* --------------------------------------------------------------- uploader
\* a or b or c or d: the first truthy operand, the last one otherwise.
FirstTruthy(s) ==
    IF \E i \in DOMAIN s : Truthy(s[i])
    THEN s[CHOOSE i \in DOMAIN s :
               Truthy(s[i]) /\ \A j \in 1..(i - 1) : ~Truthy(s[j])]
    ELSE s[Len(s)]

\* str(x) of a cell or of a synthesized text: NaN prints as "nan".
Str(v) == IF v = NULL THEN "nan" ELSE v

\* Rows with missing essential data are skipped.
Skipped(row) ==
    IsNa(Get(row, "hs")) \/ IsNa(Get(row, "latitude")) \/ IsNa(Get(row, "longitude"))

\* Building the record of a row raises ValueError when float() cannot
\* convert one of the three required cells.
RecordRaises(row) ==
    \E c \in {"latitude", "longitude", "hs"} : ~FloatConvertible(Get(row, c))

\* The optional elevation: the elevation column when present and not NaN,
\* the ALT column otherwise; a value float() rejects is left out.
OptionalFields(row) ==
    LET has(c)  == c \in DOMAIN row.cells /\ ~IsNa(row.cells[c])
        put(k, c) == IF FloatConvertible(row.cells[c])
                     THEN (k :> Float(row.cells[c])) ELSE <<>>
        hn   == IF has("hn") THEN put("hn", "hn") ELSE <<>>
        elev == IF has("elevation") THEN put("elevation", "elevation")
                ELSE IF has("ALT") THEN put("elevation", "ALT")
                ELSE <<>>
    IN  hn @@ elev

Record(row, source, measurement_date) ==
    LET idx == ToString(row.index)
        station_name == FirstTruthy(<<Get(row, "name_it"), Get(row, "name_de"),
                                      Get(row, "name_en"), "Station_" \o idx>>)
        station_code == FirstTruthy(<<Get(row, "station_code"), Get(row, "SCODE"),
                                      source \o "_" \o idx>>)
    IN  [station_code |-> Str(station_code),
         station_name |-> Str(station_name),
         latitude |-> Float(row.cells["latitude"]),
         longitude |-> Float(row.cells["longitude"]),
         hs |-> Float(row.cells["hs"]),
         measurement_date |-> measurement_date,
         source |-> source] @@ OptionalFields(row)

NoResult == [none |-> TRUE]

\* (mutant) the `if not records` guard forgotten: an empty batch is posted.
Upload_NoEmptyGuard(df, source, measurement_date, response) ==
    LET kept    == SelectSeq(df.rows, LAMBDA r : ~Skipped(r))
        records == [i \in DOMAIN kept |-> Record(kept[i], source, measurement_date)]
        quiet(raised, result) ==
            [posted |-> FALSE, body |-> <<>>, raised |-> raised,
             errors |-> <<>>, result |-> result]
    IN  IF Empty(df)
        THEN quiet("none", [uploaded |-> 0, source |-> source])
        ELSE IF \E i \in DOMAIN kept : RecordRaises(kept[i])
        THEN quiet("ValueError", NoResult)
        ELSE [posted |-> TRUE,
              body   |-> records,
              raised |-> IF response = "2xx" THEN "none" ELSE response,
              errors |-> CASE response = "2xx" -> <<>>
                           [] response = "HTTPError" ->
                                <<"Supabase upload failed", "Response">>
                           [] OTHER -> <<"Supabase request failed">>,
              result |-> IF response = "2xx"
                         THEN [uploaded |-> Len(records), source |-> source,
                               date |-> measurement_date]
                         ELSE NoResult]

\* (mutant) the count returned is that of the rows, not of the records.
Upload_CountsRows(df, source, measurement_date, response) ==
    LET kept    == SelectSeq(df.rows, LAMBDA r : ~Skipped(r))
        records == [i \in DOMAIN kept |-> Record(kept[i], source, measurement_date)]
        quiet(raised, result) ==
            [posted |-> FALSE, body |-> <<>>, raised |-> raised,
             errors |-> <<>>, result |-> result]
    IN  IF Empty(df)
        THEN quiet("none", [uploaded |-> 0, source |-> source])
        ELSE IF \E i \in DOMAIN kept : RecordRaises(kept[i])
        THEN quiet("ValueError", NoResult)
        ELSE IF records = <<>>
        THEN quiet("none", [uploaded |-> 0, source |-> source])
        ELSE [posted |-> TRUE,
              body   |-> records,
              raised |-> IF response = "2xx" THEN "none" ELSE response,
              errors |-> CASE response = "2xx" -> <<>>
                           [] response = "HTTPError" ->
                                <<"Supabase upload failed", "Response">>
                           [] OTHER -> <<"Supabase request failed">>,
              result |-> IF response = "2xx"
                         THEN [uploaded |-> Len(df.rows), source |-> source,
                               date |-> measurement_date]
                         ELSE NoResult]

\* SupabaseUploader.upload(df, source, measurement_date) against an endpoint
\* that answers the POST, if one is made, with `response`: whether a POST was
\* issued, its JSON body, the exception raised ("none" if none) and the
\* lines it wrote with logger.error and the dict returned.
Upload(df, source, measurement_date, response) ==
    LET kept    == SelectSeq(df.rows, LAMBDA r : ~Skipped(r))
        records == [i \in DOMAIN kept |-> Record(kept[i], source, measurement_date)]
        quiet(raised, result) ==
            [posted |-> FALSE, body |-> <<>>, raised |-> raised,
             errors |-> <<>>, result |-> result]
    IN  IF Empty(df)
        THEN quiet("none", [uploaded |-> 0, source |-> source])
        ELSE IF \E i \in DOMAIN kept : RecordRaises(kept[i])
        THEN quiet("ValueError", NoResult)
        ELSE IF records = <<>>
        THEN quiet("none", [uploaded |-> 0, source |-> source])
        ELSE [posted |-> TRUE,
              body   |-> records,
              raised |-> IF response = "2xx" THEN "none" ELSE response,
              errors |-> CASE response = "2xx" -> <<>>
                           [] response = "HTTPError" ->
                                <<"Supabase upload failed", "Response">>
                           [] OTHER -> <<"Supabase request failed">>,
              result |-> IF response = "2xx"
                         THEN [uploaded |-> Len(records), source |-> source,
                               date |-> measurement_date]
                         ELSE NoResult]

\* What the endpoint can answer: a 2xx status, another status
\* (raise_for_status raises HTTPError), or no answer (a transport error).
Responses == {"2xx", "HTTPError", "RequestException"}

\* ------------------------------------------------------------------ feeds
AltoAdigeMeasurementLines ==
    { [SCODE |-> "00390SF", DATE |-> "2025-09-29T11:20:00CEST", VALUE |-> "3"],
      [SCODE |-> "08155PG", DATE |-> "2025-09-29T11:20:00+02:00", VALUE |-> NULL],
      [SCODE |-> "08155PG", DATE |-> "n/a", VALUE |-> "45"],
      [SCODE |-> "61720SF", DATE |-> "2025-09-29T11:20:00CEST", VALUE |-> "10"],
      [SCODE |-> "00390SF", DATE |-> "99999999999-01-01", VALUE |-> "10"] }

AltoAdigeStationLines ==
    { [SCODE |-> "00390SF", NAME_D |-> "Schneeberg", NAME_I |-> "Monteneve",
       NAME_E |-> "Schneeberg", LONG |-> "11", LAT |-> "46"],
      [SCODE |-> "00390SF", NAME_D |-> "Schneeberg", NAME_I |-> "Monteneve",
       NAME_E |-> NULL, LONG |-> "11", LAT |-> "46"],
      [SCODE |-> "08155PG", NAME_D |-> "ETSCH BEI EYRS", NAME_I |-> "ADIGE A ORIS",
       NAME_E |-> "ETSCH BEI EYRS", LONG |-> "10", LAT |-> "46"],
      [SCODE |-> "27100MS", NAME_D |-> "Meran", NAME_I |-> "Merano",
       NAME_E |-> "Meran", LONG |-> "11", LAT |-> NULL] }

TrentinoMeasurementLines ==
    { [codice_campo |-> "21MB", nome |-> "BISSINA",
       DataRilievo |-> "30/09/2025 00:00:00", HS |-> "000", HN |-> "000"],
      [codice_campo |-> "1PEJ", nome |-> "PEJO",
       DataRilievo |-> "30/09/2025 00:00:00", HS |-> "45", HN |-> "///"],
      [codice_campo |-> "1PEJ", nome |-> "PEJO",
       DataRilievo |-> "n/a", HS |-> NULL, HN |-> NULL],
      [codice_campo |-> "21MB", nome |-> "BISSINA",
       DataRilievo |-> "30/09/2025 00:00:00", HS |-> "///", HN |-> NULL],
      [codice_campo |-> "5RAB", nome |-> "RABBI",
       DataRilievo |-> "30/09/2025 00:00:00", HS |-> "10", HN |-> "3"],
      [codice_campo |-> "21MB", nome |-> "BISSINA",
       DataRilievo |-> "99999999999-01-01", HS |-> "10", HN |-> "3"] }

TrentinoStationLines ==
    { [codice |-> "21MB", nome |-> "BISSINA", lat |-> "46", lon |-> "10"],
      [codice |-> "1PEJ", nome |-> "PEJO", lat |-> "46", lon |-> "11"],
      [codice |-> "1PEJ", nome |-> NULL, lat |-> "46", lon |-> NULL],
      [codice |-> "7TON", nome |-> "TONALE", lat |-> "46", lon |-> "10"] }

\* A measurement feed: any lines, in any order, a station may report twice.
MeasurementFeeds(lines, n) == SeqsUpTo(lines, n)

\* A station registry lists each station code once.
StationFeeds(lines, key, n) ==
    {f \in SeqsUpTo(lines, n) :
        \A i, j \in DOMAIN f : f[i][key] = f[j][key] => i = j}

\* ------------------------------------------------------------------ state
VARIABLES
    pc,        \* where the run (or the call under study) stands
    args,      \* the options of the command line / arguments of retrieve
    environ,   \* os.environ: SUPABASE_URL and SUPABASE_SERVICE_KEY
    input,     \* the arguments of the call under study (SpecFetch, SpecUpload, ...)
    readings,  \* the fetcher's local df between its two requests
    df1,       \* the Alto Adige table
    df2,       \* the Trentino table
    df,        \* the merged table
    log,       \* the requests, the merge and the file write, in the order made
    file,      \* the file at the output path
    exc,       \* the exception in flight ("none" if none)
    logged,    \* the errors written with logging.error / logger.error
    ret,       \* what the call under study returned
    echo,      \* what main printed with click.echo
    status     \* the exit status of the process

vars == <<pc, args, environ, input, readings, df1, df2, df, log, file, exc,
          logged, ret, echo, status>>

NoFrame == Frame(<<>>, <<>>)
NoFile  == [written |-> FALSE, format |-> None, table |-> NoFrame]
NoInput == [none |-> TRUE]
Running == [exited |-> FALSE, code |-> 0]
Exited(code) == [exited |-> TRUE, code |-> code]

\* An entry of the log: a request with the body sent and how it ended ("ok",
\* "2xx" or the failure), the merge, or the write of the export file.
Event(op, what, body, outcome) ==
    [op |-> op, what |-> what, body |-> body, outcome |-> outcome]

\* The --date option is any text; --format is one of three choices.
Dates   == {"2025-09-30", "2025"}
Formats == {"csv", "json", "geojson"}
Args ==
    [date : Dates, output : {None, "snow.out"}, format : Formats,
     upload_supabase : BOOLEAN]
Environs ==
    [SUPABASE_URL : {None, "https://example.supabase.co"},
     SUPABASE_SERVICE_KEY : {None, "service-key"}]

\* --------------------------------------------------- the command-line run
\* Nothing requested, written, raised or printed yet.
Quiet ==
    /\ readings = NoFrame
    /\ log = <<>>
    /\ file = NoFile
    /\ exc = "none"
    /\ logged = <<>>
    /\ ret = NoResult
    /\ echo = <<>>
    /\ status = Running

\* ... and nothing fetched.
Fresh ==
    /\ Quiet
    /\ df1 = NoFrame
    /\ df2 = NoFrame
    /\ df = NoFrame

NoArgs ==
    [date |-> "2025-09-30", output |-> None, format |-> "csv",
     upload_supabase |-> FALSE]
NoEnviron == [SUPABASE_URL |-> None, SUPABASE_SERVICE_KEY |-> None]

Init ==
    /\ pc = "aa_measurements"
    /\ args \in Args
    /\ environ \in Environs
    /\ input = NoInput
    /\ Fresh

\* A request fails in transport (which covers a non-2xx status), its body does
\* not parse, or the parsed feed lacks a column the fetcher selects (KeyError,
\* which no except clause of the fetcher names). The outcome logged with a
\* request is that of the fetcher's work on the answer, the date parsing
\* included.
FetchFailures == {"RequestException", "ParserError", "KeyError"}

Raise(kind) ==
    /\ exc' = kind
    /\ pc' = "raised"

\* session.get(...) followed by raise_for_status() and the parse of the body.
Requested(what, outcome) == log' = Append(log, Event("GET", what, <<>>, outcome))

\* main -> retrieve -> AltoAdigeDataFetcher.fetch_snow_depth_data, up to the
\* parsed measurement feed.
AltoAdigeGetMeasurements ==
    /\ pc = "aa_measurements"
    /\ \/ \E body \in MeasurementFeeds(AltoAdigeMeasurementLines, MaxRunRows) :
            LET raised == ApplyDateParseRaised(AltoAdigeParsed(body))
            IN  IF raised = "none"
                THEN /\ Requested("alto_adige/sensors", "ok")
                     /\ readings' = AltoAdigeReadings(body)
                     /\ pc' = "aa_stations"
                     /\ exc' = exc
                ELSE /\ Requested("alto_adige/sensors", raised)
                     /\ Raise(raised)
                     /\ readings' = readings
       \/ \E kind \in FetchFailures :
            /\ Requested("alto_adige/sensors", kind)
            /\ Raise(kind)
            /\ readings' = readings
    /\ UNCHANGED <<args, environ, input, df1, df2, df, file, logged, ret, echo, status>>

\* (mutant) the Alto Adige table is uploaded as soon as it is fetched.
AltoAdigeGetStations_ThenUpload ==
    /\ pc = "aa_stations"
    /\ readings' = NoFrame
    /\ \/ \E body \in StationFeeds(AltoAdigeStationLines, "SCODE", MaxRunRows) :
            /\ Requested("alto_adige/stations", "ok")
            /\ df1' = AltoAdigeResult(readings, body)
            /\ pc' = "upload"
            /\ exc' = exc
       \/ \E kind \in FetchFailures :
            /\ Requested("alto_adige/stations", kind)
            /\ Raise(kind)
            /\ df1' = df1
    /\ UNCHANGED <<args, environ, input, df2, df, file, logged, ret, echo, status>>

\* ... its station feed, the join and the return to retrieve.
AltoAdigeGetStations ==
    /\ pc = "aa_stations"
    /\ readings' = NoFrame
    /\ \/ \E body \in StationFeeds(AltoAdigeStationLines, "SCODE", MaxRunRows) :
            /\ Requested("alto_adige/stations", "ok")
            /\ df1' = AltoAdigeResult(readings, body)
            /\ pc' = "tn_measurements"
            /\ exc' = exc
       \/ \E kind \in FetchFailures :
            /\ Requested("alto_adige/stations", kind)
            /\ Raise(kind)
            /\ df1' = df1
    /\ UNCHANGED <<args, environ, input, df2, df, file, logged, ret, echo, status>>

\* date.split('-')[0], [1], [2] are evaluated before the request is made: a
\* date with fewer than three parts raises IndexError.
DateSplits(date) == date = "2025-09-30"

\* (mutant) a failed request is tried again.
TrentinoGetMeasurements_Retry ==
    /\ pc = "tn_measurements"
    /\ \/ /\ ~DateSplits(args.date)
          /\ Raise("IndexError")
          /\ UNCHANGED <<log, readings>>
       \/ /\ DateSplits(args.date)
          /\ \E body \in MeasurementFeeds(TrentinoMeasurementLines, MaxRunRows) :
                LET raised == ApplyDateParseRaised(TrentinoParsed(body))
                IN  IF raised = "none"
                    THEN /\ Requested("trentino/rilievi", "ok")
                         /\ readings' = TrentinoReadings(body)
                         /\ pc' = "tn_stations"
                         /\ exc' = exc
                    ELSE /\ Requested("trentino/rilievi", raised)
                         /\ Raise(raised)
                         /\ readings' = readings
       \/ /\ DateSplits(args.date)
          /\ Len(log) < 4
          /\ \E kind \in FetchFailures :
                /\ Requested("trentino/rilievi", kind)
                /\ UNCHANGED <<pc, exc, readings>>
    /\ UNCHANGED <<args, environ, input, df1, df2, df, file, logged, ret, echo, status>>

\* TrentinoDataFetcher.fetch_snow_depth_data, up to the parsed measurement feed.
TrentinoGetMeasurements ==
    /\ pc = "tn_measurements"
    /\ \/ /\ ~DateSplits(args.date)
          /\ Raise("IndexError")
          /\ UNCHANGED <<log, readings>>
       \/ /\ DateSplits(args.date)
          /\ \E body \in MeasurementFeeds(TrentinoMeasurementLines, MaxRunRows) :
                LET raised == ApplyDateParseRaised(TrentinoParsed(body))
                IN  IF raised = "none"
                    THEN /\ Requested("trentino/rilievi", "ok")
                         /\ readings' = TrentinoReadings(body)
                         /\ pc' = "tn_stations"
                         /\ exc' = exc
                    ELSE /\ Requested("trentino/rilievi", raised)
                         /\ Raise(raised)
                         /\ readings' = readings
       \/ /\ DateSplits(args.date)
          /\ \E kind \in FetchFailures :
                /\ Requested("trentino/rilievi", kind)
                /\ Raise(kind)
                /\ readings' = readings
    /\ UNCHANGED <<args, environ, input, df1, df2, df, file, logged, ret, echo, status>>

\* ... its station registry, the join and the return to retrieve.
TrentinoGetStations ==
    /\ pc = "tn_stations"
    /\ readings' = NoFrame
    /\ \/ \E body \in StationFeeds(TrentinoStationLines, "codice", MaxRunRows) :
            /\ Requested("trentino/campi", "ok")
            /\ df2' = TrentinoResult(readings, body)
            /\ pc' = "upload"
            /\ exc' = exc
       \/ \E kind \in FetchFailures :
            /\ Requested("trentino/campi", kind)
            /\ Raise(kind)
            /\ df2' = df2
    /\ UNCHANGED <<args, environ, input, df1, df, file, logged, ret, echo, status>>

\* _upload_to_supabase returns at once unless both variables are set.
Configured(env) == Truthy(env.SUPABASE_URL) /\ Truthy(env.SUPABASE_SERVICE_KEY)

UploadNotRequested ==
    /\ pc = "upload"
    /\ ~args.upload_supabase \/ ~Configured(environ)
    /\ pc' = "concat"
    /\ UNCHANGED <<args, environ, input, readings, df1, df2, df, log, file, exc,
                   logged, ret, echo, status>>

\* (mutant) no except clause around the uploads: the failure leaves
\* _upload_to_supabase and retrieve.
UploadSource_Reraise(table, source, next) ==
    IF Empty(table)
    THEN /\ pc' = next
         /\ UNCHANGED <<log, logged, exc>>
    ELSE \E response \in Responses :
            LET r == Upload(table, source, args.date, response)
            IN  /\ log' = IF r.posted
                          THEN Append(log, Event("POST", source, r.body, response))
                          ELSE log
                /\ logged' = logged \o r.errors
                /\ IF r.raised = "none"
                   THEN pc' = next /\ exc' = exc
                   ELSE Raise(r.raised)

\* One source's step of _upload_to_supabase: nothing for an empty table;
\* otherwise upload_to_supabase, whose exception the enclosing except clause
\* catches and logs, which ends _upload_to_supabase.
UploadSource(table, source, next) ==
    IF Empty(table)
    THEN /\ pc' = next
         /\ UNCHANGED <<log, logged, exc>>
    ELSE \E response \in Responses :
            LET r == Upload(table, source, args.date, response)
            IN  /\ log' = IF r.posted
                          THEN Append(log, Event("POST", source, r.body, response))
                          ELSE log
                /\ exc' = exc
                /\ IF r.raised = "none"
                   THEN /\ pc' = next
                        /\ logged' = logged
                   ELSE /\ pc' = "concat"
                        /\ logged' = logged \o r.errors
                                         \o <<"[x] Supabase upload failed">>

UploadAltoAdige ==
    /\ pc = "upload"
    /\ args.upload_supabase /\ Configured(environ)
    /\ UploadSource(df1, "alto_adige", "upload_trentino")
    /\ UNCHANGED <<args, environ, input, readings, df1, df2, df, file, ret, echo,
                   status>>

UploadTrentino ==
    /\ pc = "upload_trentino"
    /\ UploadSource(df2, "trentino", "concat")
    /\ UNCHANGED <<args, environ, input, readings, df1, df2, df, file, ret, echo,
                   status>>

Aggregate ==
    /\ pc = "concat"
    /\ df' = Concat(df1, df2)
    /\ log' = Append(log, Event("concat", "df", <<>>, "ok"))
    /\ pc' = "export"
    /\ UNCHANGED <<args, environ, input, readings, df1, df2, file, exc, logged, ret,
                   echo, status>>

\* (mutant) one coordinate column is taken to be enough.
ExportRaises_EitherColumn(table, format) ==
    format = "geojson" /\ ~("latitude" \in ColumnSet(table) \/ "longitude" \in ColumnSet(table))

\* The GeoJSON branch needs both coordinate columns.
ExportRaises(table, format) ==
    format = "geojson" /\ ~("latitude" \in ColumnSet(table) /\ "longitude" \in ColumnSet(table))

\* The `if output:` block of retrieve: the file is written by the serializer
\* of the format, which may fail on the path (OSError); either failure is
\* logged and re-raised.
ExportTo(table, output, format) ==
    IF ~Truthy(output)
    THEN UNCHANGED <<file, log, logged, exc>> /\ pc' = "returned"
    ELSE IF ExportRaises(table, format)
    THEN /\ Raise("ValueError")
         /\ logged' = Append(logged, "Error saving file")
         /\ UNCHANGED <<file, log>>
    ELSE \/ /\ file' = [written |-> TRUE, format |-> format, table |-> table]
            /\ log' = Append(log, Event("write", format, <<>>, "ok"))
            /\ pc' = "returned"
            /\ UNCHANGED <<logged, exc>>
         \/ /\ Raise("OSError")
            /\ logged' = Append(logged, "Error saving file")
            /\ UNCHANGED <<file, log>>

Export ==
    /\ pc = "export"
    /\ ExportTo(df, args.output, args.format)
    /\ UNCHANGED <<args, environ, input, readings, df1, df2, df, ret, echo, status>>

\* cli.main: retrieve returned.
MainSuccess ==
    /\ pc = "returned"
    /\ echo' = Append(echo, "Operation completed successfully!")
    /\ status' = Exited(0)
    /\ pc' = "exit"
    /\ UNCHANGED <<args, environ, input, readings, df1, df2, df, log, file, exc,
                   logged, ret>>

\* (mutant) the error is printed and main returns normally.
MainAbort_ExitZero ==
    /\ pc = "raised"
    /\ echo' = Append(echo, "Error")
    /\ status' = Exited(0)
    /\ pc' = "exit"
    /\ UNCHANGED <<args, environ, input, readings, df1, df2, df, log, file, exc,
                   logged, ret>>

\* cli.main: retrieve raised; click.Abort ends the process with status 1.
MainAbort ==
    /\ pc = "raised"
    /\ echo' = Append(echo, "Error")
    /\ status' = Exited(1)
    /\ pc' = "exit"
    /\ UNCHANGED <<args, environ, input, readings, df1, df2, df, log, file, exc,
                   logged, ret>>

Next ==
    \/ AltoAdigeGetMeasurements
    \/ AltoAdigeGetStations
    \/ TrentinoGetMeasurements
    \/ TrentinoGetStations
    \/ UploadNotRequested
    \/ UploadAltoAdige
    \/ UploadTrentino
    \/ Aggregate
    \/ Export
    \/ MainSuccess
    \/ MainAbort

Spec == Init /\ [][Next]_vars

\* ------------------------------------------- the fetchers as functions
\* One call of fetch_snow_depth_data whose two requests are answered with the
\* given parsed feeds.
FetchInputs ==
    [fetcher : {"alto_adige"},
     measurements : MeasurementFeeds(AltoAdigeMeasurementLines, MaxRows),
     stations : StationFeeds(AltoAdigeStationLines, "SCODE", MaxRows)]
    \cup
    [fetcher : {"trentino"},
     measurements : MeasurementFeeds(TrentinoMeasurementLines, MaxRows),
     stations : StationFeeds(TrentinoStationLines, "codice", MaxRows)]

InitFetch ==
    /\ pc = "call"
    /\ args = NoArgs
    /\ environ = NoEnviron
    /\ input \in FetchInputs
    /\ Fresh

FetchAltoAdige ==
    /\ pc = "call"
    /\ input.fetcher = "alto_adige"
    /\ LET raised == ApplyDateParseRaised(AltoAdigeParsed(input.measurements))
       IN  IF raised = "none"
           THEN /\ df1' = AltoAdigeResult(AltoAdigeReadings(input.measurements),
                                          input.stations)
                /\ pc' = "returned"
                /\ exc' = exc
           ELSE /\ Raise(raised)
                /\ df1' = df1
    /\ UNCHANGED <<args, environ, input, readings, df2, df, log, file, logged,
                   ret, echo, status>>

FetchTrentino ==
    /\ pc = "call"
    /\ input.fetcher = "trentino"
    /\ LET raised == ApplyDateParseRaised(TrentinoParsed(input.measurements))
       IN  IF raised = "none"
           THEN /\ df2' = TrentinoResult(TrentinoReadings(input.measurements),
                                         input.stations)
                /\ pc' = "returned"
                /\ exc' = exc
           ELSE /\ Raise(raised)
                /\ df2' = df2
    /\ UNCHANGED <<args, environ, input, readings, df1, df, log, file, logged,
                   ret, echo, status>>

NextFetch == FetchAltoAdige \/ FetchTrentino

SpecFetch == InitFetch /\ [][NextFetch]_vars

\* ---------------------------------------------- the merge as a function
\* The tables the two fetchers can return.
AltoAdigeTables ==
    {AltoAdigeResult(AltoAdigeReadings(m), st) :
        m \in {f \in MeasurementFeeds(AltoAdigeMeasurementLines, MaxAggregateRows) :
                  ApplyDateParseRaised(AltoAdigeParsed(f)) = "none"},
        st \in StationFeeds(AltoAdigeStationLines, "SCODE", MaxAggregateRows)}

TrentinoTables ==
    {TrentinoResult(TrentinoReadings(m), st) :
        m \in {f \in MeasurementFeeds(TrentinoMeasurementLines, MaxAggregateRows) :
                  ApplyDateParseRaised(TrentinoParsed(f)) = "none"},
        st \in StationFeeds(TrentinoStationLines, "codice", MaxAggregateRows)}

InitAggregate ==
    /\ pc = "concat"
    /\ args = NoArgs
    /\ environ = NoEnviron
    /\ input = NoInput
    /\ df1 \in AltoAdigeTables
    /\ df2 \in TrentinoTables
    /\ df = NoFrame
    /\ Quiet

NextAggregate == Aggregate

SpecAggregate == InitAggregate /\ [][NextAggregate]_vars

\* ------------------------------------------------ the uploader, called directly
UploadColumns ==
    {"date", "hs", "hn", "name_it", "name_de", "name_en", "longitude", "latitude",
     "station_code", "SCODE", "elevation", "ALT"}

UploadRowPool ==
    LET base == [c \in UploadColumns |->
                    CASE c = "date"         -> "2025-09-29 11:20:00"
                      [] c = "hs"           -> "3"
                      [] c = "hn"           -> "0"
                      [] c = "name_it"      -> "Monteneve"
                      [] c = "name_de"      -> "Schneeberg"
                      [] c = "name_en"      -> "Snow Mountain"
                      [] c = "longitude"    -> "11"
                      [] c = "latitude"     -> "46"
                      [] c = "station_code" -> "00390SF"
                      [] c = "SCODE"        -> "00390SF"
                      [] c = "elevation"    -> "10"
                      [] c = "ALT"          -> "11"]
    IN  { base,
          [base EXCEPT !["hs"] = NULL],
          [base EXCEPT !["longitude"] = NULL],
          [base EXCEPT !["hs"] = "///"],
          [base EXCEPT !["hs"] = "45", !["name_it"] = NULL, !["name_de"] = "",
                       !["name_en"] = "PEJO", !["hn"] = "///",
                       !["station_code"] = NULL, !["SCODE"] = "",
                       !["elevation"] = NULL, !["ALT"] = "///"],
          [base EXCEPT !["hs"] = "10", !["name_it"] = "", !["name_de"] = "",
                       !["name_en"] = "", !["hn"] = NULL, !["station_code"] = "",
                       !["SCODE"] = "1PEJ", !["elevation"] = "///"],
          [base EXCEPT !["hs"] = "11", !["name_it"] = "", !["name_de"] = ""] }

AltoAdigeColumns ==
    <<"date", "hs", "name_de", "name_it", "name_en", "longitude", "latitude">>

UploadShapes ==
    { TrentinoColumns,
      AltoAdigeColumns,
      <<"hs", "latitude", "longitude">>,
      <<"station_code", "name_it", "hs", "hn", "latitude", "longitude", "elevation">>,
      <<"SCODE", "name_de", "hs", "latitude", "longitude", "ALT">>,
      <<"date", "hs", "latitude">>,
      <<"date", "latitude", "longitude">> }

\* The table of the given columns holding the given rows, its index starting
\* at `first`.
Table(cols, rows, first) ==
    Frame(cols,
          [i \in DOMAIN rows |->
              [index |-> first + i - 1,
               cells |-> [c \in Range(cols) |-> rows[i][c]]]])

UploadTables ==
    {Table(cols, rows, first) :
        cols \in UploadShapes,
        rows \in SeqsUpTo(UploadRowPool, MaxUploadRows),
        first \in {0, 1}}

UploadInputs ==
    [df : UploadTables, source : {"alto_adige", "trentino"},
     measurement_date : {"2025-09-30"}]

InitUpload ==
    /\ pc = "construct"
    /\ args = NoArgs
    /\ environ \in Environs
    /\ input \in UploadInputs
    /\ Fresh

\* (mutant) only the URL is required.
SupabaseUploader_UrlOnly(url, key, env) ==
    LET self_url == FirstTruthy(<<url, env.SUPABASE_URL>>)
        self_key == FirstTruthy(<<key, env.SUPABASE_SERVICE_KEY>>)
    IN  [raised |-> ~Truthy(self_url), url |-> self_url, key |-> self_key]

\* SupabaseUploader(url, key): each setting is the argument or, when that is
\* None or empty, the environment variable; a setting missing from both
\* raises ValueError in the constructor.
SupabaseUploader(url, key, env) ==
    LET self_url == FirstTruthy(<<url, env.SUPABASE_URL>>)
        self_key == FirstTruthy(<<key, env.SUPABASE_SERVICE_KEY>>)
    IN  [raised |-> ~Truthy(self_url) \/ ~Truthy(self_key),
         url |-> self_url, key |-> self_key]

\* SupabaseUploader.__init__ with no arguments: both settings come from the
\* environment and a missing one raises at once.
ConstructorRaises(env) == SupabaseUploader(None, None, env).raised

\* An argument of the call under study, None (the default) when not passed.
Arg(name) == IF name \in DOMAIN input THEN input[name] ELSE None

\* SupabaseUploader(url, key) called directly, or upload_to_supabase, which
\* passes neither argument: the uploader is constructed ...
Construct ==
    /\ pc = "construct"
    /\ IF SupabaseUploader(Arg("url"), Arg("key"), environ).raised
       THEN Raise("ValueError")
       ELSE pc' = "uploader.upload" /\ exc' = exc
    /\ UNCHANGED <<args, environ, input, readings, df1, df2, df, log, file, logged,
                   ret, echo, status>>

\* ... and its upload method called.
UploadCall ==
    /\ pc = "uploader.upload"
    /\ \E response \in Responses :
          LET r == Upload(input.df, input.source, input.measurement_date, response)
          IN  /\ log' = IF r.posted
                        THEN Append(log, Event("POST", input.source, r.body, response))
                        ELSE log
              /\ logged' = logged \o r.errors
              /\ IF r.raised = "none"
                 THEN /\ ret' = r.result
                      /\ pc' = "returned"
                      /\ exc' = exc
                 ELSE /\ Raise(r.raised)
                      /\ ret' = ret
    /\ UNCHANGED <<args, environ, input, readings, df1, df2, df, file, echo, status>>

NextUpload == Construct \/ UploadCall

SpecUpload == InitUpload /\ [][NextUpload]_vars

\* ------------------------------- the two ways to the uploader, side by side
\* A direct construction passes the two settings, or leaves them out, or
\* passes them empty.
ConstructInputs ==
    [df : {Table(cols, rows, 0) :
              cols \in {TrentinoColumns, AltoAdigeColumns},
              rows \in SeqsUpTo(UploadRowPool, MaxRunRows)},
     source : {"alto_adige"},
     measurement_date : {"2025-09-30"},
     url : {None, "", "https://arg.supabase.co"},
     key : {None, "", "arg-key"}]

\* Either a run of the command-line program, or SupabaseUploader(url, key)
\* followed by a call of its upload method.
InitCredentials ==
    \/ Init
    \/ /\ pc = "construct"
       /\ args = NoArgs
       /\ environ \in Environs
       /\ input \in ConstructInputs
       /\ Fresh

NextCredentials == Next \/ Construct \/ UploadCall

SpecCredentials == InitCredentials /\ [][NextCredentials]_vars

\* ------------------------------------------------- the export block alone
\* The `if output:` block entered with a merged table of any column set.
ExportTables ==
    {Table(cols, rows, 0) :
        cols \in UploadShapes \cup {<<"date", "hs", "longitude">>, <<"date", "hs">>},
        rows \in SeqsUpTo(UploadRowPool, MaxUploadRows)}

InitExport ==
    /\ pc = "export"
    /\ args \in [date : {"2025-09-30"}, output : {None, "snow.out"},
                 format : Formats, upload_supabase : {FALSE}]
    /\ environ = NoEnviron
    /\ input = NoInput
    /\ df1 = NoFrame
    /\ df2 = NoFrame
    /\ df \in ExportTables
    /\ Quiet

NextExport == Export \/ MainSuccess \/ MainAbort

SpecExport == InitExport /\ [][NextExport]_vars

\* ----------------------------------------------------------------- claims
\* The row a measurement line and a station line of the Alto Adige feeds
\* stand for, read off the two feed formats.
AltoAdigeLineRow(m, s) ==
    [c \in {"date", "hs", "name_de", "name_it", "name_en", "longitude", "latitude"} |->
        CASE c = "date"      -> IF DateutilParse(m.DATE).ok
                                THEN DateutilParse(m.DATE).ts ELSE NULL
          [] c = "hs"        -> m.VALUE
          [] c = "name_de"   -> s.NAME_D
          [] c = "name_it"   -> s.NAME_I
          [] c = "name_en"   -> s.NAME_E
          [] c = "longitude" -> s.LONG
          [] c = "latitude"  -> s.LAT]

AltoAdigeReturned == pc = "returned" /\ input.fetcher = "alto_adige"

MeasurementCodes == {input.measurements[i].SCODE : i \in DOMAIN input.measurements}
StationCodes == {input.stations[i].SCODE : i \in DOMAIN input.stations}

\* The station codes with a row in the returned Alto Adige table.
RepresentedCodes ==
    {c \in MeasurementCodes \cup StationCodes :
        \E i \in DOMAIN input.measurements, j \in DOMAIN input.stations :
            /\ input.measurements[i].SCODE = c
            /\ input.stations[j].SCODE = c
            /\ \E r \in Range(df1.rows) :
                  r.cells = AltoAdigeLineRow(input.measurements[i], input.stations[j])}

\* The codes of both feeds with a pair of lines free of missing values.
CompleteCodes ==
    {c \in MeasurementCodes \cap StationCodes :
        \E i \in DOMAIN input.measurements, j \in DOMAIN input.stations :
            /\ input.measurements[i].SCODE = c
            /\ input.stations[j].SCODE = c
            /\ \A k \in DOMAIN AltoAdigeLineRow(input.measurements[i], input.stations[j]) :
                  AltoAdigeLineRow(input.measurements[i], input.stations[j])[k] # NULL}

NoNullEssentials(table) ==
    \A r \in Range(table.rows) :
        r.cells["hs"] # NULL /\ r.cells["latitude"] # NULL /\ r.cells["longitude"] # NULL

\* C2 as stated: the codes of the returned Alto Adige table are exactly the
\* codes present in both feeds, and no returned row has a null hs, latitude
\* or longitude.
C2_Original ==
    AltoAdigeReturned =>
        /\ RepresentedCodes = MeasurementCodes \cap StationCodes
        /\ NoNullEssentials(df1)

\* C2 (amended): the codes of the returned Alto Adige table are exactly the
\* codes present in both feeds that have a measurement line and a station line
\* without a missing value in any column (an unparseable date counts as
\* missing); every returned row is such a pair of lines, and none has a null
\* hs, latitude or longitude.
C2_JoinThenDropNa ==
    AltoAdigeReturned =>
        /\ RepresentedCodes = CompleteCodes
        /\ NoNullEssentials(df1)
        /\ \A r \in Range(df1.rows) :
              \E i \in DOMAIN input.measurements, j \in DOMAIN input.stations :
                  /\ input.measurements[i].SCODE = input.stations[j].SCODE
                  /\ r.cells = AltoAdigeLineRow(input.measurements[i], input.stations[j])

\* A returned table that holds one code of both feeds and lacks another.
C2_Witness ==
    /\ AltoAdigeReturned
    /\ RepresentedCodes # {}
    /\ RepresentedCodes # MeasurementCodes \cap StationCodes

\* The row a measurement line and a station line of the Trentino feeds stand
\* for: the registry has one name per station, used for all three languages.
TrentinoLineRow(m, s) ==
    [c \in {"date", "hs", "hn", "name_it", "name_en", "name_de", "longitude",
            "latitude"} |->
        CASE c = "date"      -> IF DateutilParse(m.DataRilievo).ok
                                THEN DateutilParse(m.DataRilievo).ts ELSE NULL
          [] c = "hs"        -> m.HS
          [] c = "hn"        -> m.HN
          [] c \in {"name_it", "name_en", "name_de"} -> s.nome
          [] c = "longitude" -> s.lon
          [] c = "latitude"  -> s.lat]

TrentinoReturned == pc = "returned" /\ input.fetcher = "trentino"

\* The measurement lines whose code is in the registry, in feed order.
MatchedLines ==
    SelectSeq(input.measurements,
              LAMBDA m : \E j \in DOMAIN input.stations :
                            input.stations[j].codice = m.codice_campo)

StationOf(m) ==
    input.stations[CHOOSE j \in DOMAIN input.stations :
                      input.stations[j].codice = m.codice_campo]

\* C4: a table the Trentino fetcher returns has exactly the eight columns
\* date, hs, hn, name_it, name_en, name_de, longitude, latitude, with name_en
\* and name_de equal to name_it in every row; it has one row per measurement
\* line whose code matches a station, nulls included (nothing is dropped
\* after the join).
C4_EightColumnsNoDrop ==
    TrentinoReturned =>
        /\ df2.columns = <<"date", "hs", "hn", "name_it", "name_en", "name_de",
                           "longitude", "latitude">>
        /\ \A r \in Range(df2.rows) :
              /\ DOMAIN r.cells = Range(df2.columns)
              /\ r.cells["name_en"] = r.cells["name_it"]
              /\ r.cells["name_de"] = r.cells["name_it"]
        /\ Len(df2.rows) = Len(MatchedLines)
        /\ \A i \in DOMAIN df2.rows :
              df2.rows[i].cells = TrentinoLineRow(MatchedLines[i], StationOf(MatchedLines[i]))

\* A returned Trentino table that keeps a row with a null hs beside a row
\* without, while a measurement line without a station is left out.
C4_Witness ==
    /\ TrentinoReturned
    /\ \E r \in Range(df2.rows) : r.cells["hs"] = NULL
    /\ \E r \in Range(df2.rows) : \A c \in DOMAIN r.cells : r.cells[c] # NULL
    /\ Len(df2.rows) < Len(input.measurements)

\* C3: merging the Alto Adige table (M rows) and the Trentino table (N rows)
\* gives M+N rows, the Alto Adige rows first and then the Trentino rows, each
\* in its order and with its cells, under the index 0..M+N-1 whatever the
\* indices were; hn, which the Alto Adige table lacks, is null in its rows.
C3_ConcatAllRows ==
    pc = "export" =>
        LET M == Len(df1.rows)
            N == Len(df2.rows)
        IN  /\ Len(df.rows) = M + N
            /\ \A i \in DOMAIN df.rows : df.rows[i].index = i - 1
            /\ \A i \in 1..M :
                  /\ \A c \in DOMAIN df1.rows[i].cells :
                        df.rows[i].cells[c] = df1.rows[i].cells[c]
                  /\ df.rows[i].cells["hn"] = NULL
            /\ \A j \in 1..N :
                  \A c \in DOMAIN df2.rows[j].cells :
                      df.rows[M + j].cells[c] = df2.rows[j].cells[c]

\* A merge of an Alto Adige table whose index does not start at 0 (dropna
\* removed its first row) with a Trentino table holding the same row twice.
C3_Witness ==
    /\ pc = "export"
    /\ Len(df1.rows) >= 1
    /\ df1.rows[1].index # 0
    /\ Len(df2.rows) = 2
    /\ df2.rows[1].cells = df2.rows[2].cells

\* The upload method was called and has ended (the constructor did not raise).
UploadEnded ==
    /\ pc \in {"returned", "raised"}
    /\ environ.SUPABASE_URL # None
    /\ environ.SUPABASE_SERVICE_KEY # None

NullEssential(row) ==
    \E c \in {"hs", "latitude", "longitude"} :
        c \notin DOMAIN row.cells \/ row.cells[c] = NULL

Posts == SelectSeq(log, LAMBDA e : e.op = "POST")

\* C5: an upload call whose table is empty, or whose every row has a null hs,
\* latitude or longitude, returns uploaded = 0 with the passed source tag and
\* issues no POST.
C5_NothingToUpload ==
    (UploadEnded /\ \A r \in Range(input.df.rows) : NullEssential(r)) =>
        /\ pc = "returned"
        /\ ret.uploaded = 0
        /\ ret.source = input.source
        /\ Posts = <<>>

\* An upload call on two rows, one without hs and one without longitude.
C5_Witness ==
    /\ UploadEnded
    /\ Len(input.df.rows) = 2
    /\ "longitude" \in ColumnSet(input.df)
    /\ "hs" \in ColumnSet(input.df)
    /\ input.df.rows[1].cells["hs"] = NULL
    /\ input.df.rows[2].cells["longitude"] = NULL
    /\ ret.uploaded = 0

\* The rows of the table with hs, latitude and longitude not null.
ValidRows == SelectSeq(input.df.rows, LAMBDA r : ~NullEssential(r))

Numbers == {"0", "000", "3", "10", "11", "45", "46"}

\* The POST body has one record per valid row, in row order, each with the
\* passed source tag and date and the row's three numbers.
OnePostOfValidRows ==
    /\ Len(Posts) = 1
    /\ Len(Posts[1].body) = Len(ValidRows)
    /\ \A i \in DOMAIN ValidRows :
          LET rec == Posts[1].body[i]
              row == ValidRows[i]
          IN  /\ rec.source = input.source
              /\ rec.measurement_date = input.measurement_date
              /\ ToString(rec.hs) = IF row.cells["hs"] = "000" THEN "0" ELSE row.cells["hs"]
              /\ ToString(rec.latitude) = row.cells["latitude"]
              /\ ToString(rec.longitude) = row.cells["longitude"]
    /\ pc = "returned" <=> Posts[1].outcome = "2xx"
    /\ pc = "returned" => ret.uploaded = Len(Posts[1].body)

\* C6 as stated: an upload call on a table with at least one valid row issues
\* exactly one POST holding one record per valid row, in row order, with the
\* passed source and date; on a 2xx response the count returned is the number
\* of records.
C6_Original ==
    (UploadEnded /\ ValidRows # <<>>) => OnePostOfValidRows

\* C6 (amended): the same, provided hs, latitude and longitude of every valid
\* row convert to a number; if one does not, the call raises ValueError and
\* issues no POST.
C6_OnePostOfConvertibleRows ==
    (UploadEnded /\ ValidRows # <<>>) =>
        IF \A i \in DOMAIN ValidRows :
              \A c \in {"hs", "latitude", "longitude"} : ValidRows[i].cells[c] \in Numbers
        THEN OnePostOfValidRows
        ELSE pc = "raised" /\ exc = "ValueError" /\ Posts = <<>>

\* A call answered 2xx whose table has a skipped row between two valid rows
\* of different hs.
C6_Witness ==
    /\ UploadEnded
    /\ pc = "returned"
    /\ Len(input.df.rows) = 3
    /\ Len(ValidRows) = 2
    /\ NullEssential(input.df.rows[2])
    /\ ValidRows[1].cells["hs"] # ValidRows[2].cells["hs"]
    /\ ret.uploaded = 2

\* C10: a GeoJSON export of a merged table without the latitude column or
\* without the longitude column fails with ValueError, and no file has been
\* written at the output path.
C10_GeoJsonNeedsCoordinates ==
    ( /\ pc # "export"
      /\ args.output # None
      /\ args.format = "geojson"
      /\ ("latitude" \notin Range(df.columns) \/ "longitude" \notin Range(df.columns)) )
    => /\ exc = "ValueError"
       /\ ~file.written
       /\ \A i \in DOMAIN log : log[i].op # "write"

\* A GeoJSON export refused for a table that has latitude but no longitude.
C10_Witness ==
    /\ pc = "raised"
    /\ exc = "ValueError"
    /\ args.format = "geojson"
    /\ "latitude" \in Range(df.columns)
    /\ "longitude" \notin Range(df.columns)
    /\ Len(df.rows) > 0

\* ------------------------------------------------ claims about the run
FailedPosts == {i \in DOMAIN log : log[i].op = "POST" /\ log[i].outcome # "2xx"}
FailedGets  == {i \in DOMAIN log : log[i].op = "GET" /\ log[i].outcome # "ok"}

NoPostAfter(i) == \A j \in DOMAIN log : j > i => log[j].op # "POST"

\* C1 as stated: after a failed upload POST the run aborts: no remaining
\* source is uploaded, no merged table is returned and no export file is
\* written.
C1_Original ==
    \A i \in FailedPosts :
        /\ NoPostAfter(i)
        /\ pc # "returned"
        /\ ~file.written

\* C1 (amended): a failed upload POST is logged by the uploader and re-raised
\* to _upload_to_supabase, which catches and logs it and returns: no
\* remaining source is uploaded, the failure never leaves retrieve, and the
\* run goes on to merge, export and return as it does without the upload.
C1_UploadFailureLoggedRunGoesOn ==
    \A i \in FailedPosts :
        /\ NoPostAfter(i)
        /\ \E k \in DOMAIN logged :
              /\ logged[k] \in {"Supabase upload failed", "Supabase request failed"}
              /\ \E n \in DOMAIN logged : n > k /\ logged[n] = "[x] Supabase upload failed"
        /\ exc \in {"none", "OSError"}
        /\ pc \in {"concat", "export", "returned", "raised", "exit"}
        /\ pc = "returned" =>
              /\ Len(df.rows) = Len(df1.rows) + Len(df2.rows)
              /\ args.output # None => file.written /\ file.table = df

\* A run that ended with status 0 and the export file written although the
\* Alto Adige POST failed; the Trentino table, not empty, was not uploaded.
C1_Witness ==
    /\ pc = "exit"
    /\ status = Exited(0)
    /\ file.written
    /\ \E i \in FailedPosts : log[i].what = "alto_adige"
    /\ \E r \in Range(df2.rows) : r.cells["hs"] \in Numbers /\ r.cells["longitude"] \in Numbers

\* The place of an event in the order of a run.
Rank(e) ==
    CASE e.op = "GET" /\ e.what = "alto_adige/sensors"  -> 1
      [] e.op = "GET" /\ e.what = "alto_adige/stations" -> 2
      [] e.op = "GET" /\ e.what = "trentino/rilievi"    -> 3
      [] e.op = "GET" /\ e.what = "trentino/campi"      -> 4
      [] e.op = "POST" /\ e.what = "alto_adige"         -> 5
      [] e.op = "POST" /\ e.what = "trentino"           -> 6
      [] e.op = "concat"                                -> 7
      [] e.op = "write"                                 -> 8

\* C7: the events of a run come in the order Alto Adige measurement GET,
\* Alto Adige station GET, Trentino measurement GET, Trentino station GET,
\* Alto Adige POST, Trentino POST (only with upload enabled), merge, export
\* write; a POST, the merge and the write come only after the four requests
\* have succeeded, and the write only after the merge.
C7_EventOrder ==
    /\ \A i, j \in DOMAIN log : i < j => Rank(log[i]) < Rank(log[j])
    /\ \A i \in DOMAIN log :
          /\ Rank(log[i]) <= 4 => Rank(log[i]) = i
          /\ Rank(log[i]) >= 5 =>
                /\ Len(log) >= 4
                /\ \A k \in 1..4 : Rank(log[k]) = k /\ log[k].outcome = "ok"
          /\ log[i].op = "POST" => args.upload_supabase
          /\ log[i].op = "write" => i > 1 /\ log[i - 1].op = "concat"

\* A run that made all eight events.
C7_Witness ==
    /\ Len(log) = 8
    /\ pc = "exit"

\* C8: a failed fetch request ends the run at once: it is the last event
\* (never re-issued, no further request, no upload, merge or export), its
\* exception is the one that reaches the caller of retrieve, and neither the
\* failing fetcher nor a later one has produced a table; every feed is
\* requested at most once.
C8_FetchFailurePropagates ==
    /\ \A i, j \in DOMAIN log :
          (log[i].op = "GET" /\ log[j].op = "GET" /\ log[i].what = log[j].what) => i = j
    /\ \A i \in FailedGets :
          /\ i = Len(log)
          /\ pc \in {"raised", "exit"}
          /\ exc = log[i].outcome
          /\ i <= 2 => df1 = NoFrame
          /\ df2 = NoFrame
          /\ df = NoFrame
          /\ ~file.written
          /\ pc = "exit" => status = Exited(1)

\* The Trentino measurement request failed after the Alto Adige fetch gave a table.
C8_Witness ==
    /\ pc = "raised"
    /\ Len(log) = 3
    /\ 3 \in FailedGets
    /\ Len(df1.rows) > 0
    /\ args.upload_supabase
    /\ args.output # None

UploadFailureLogged == \E k \in DOMAIN logged : logged[k] = "[x] Supabase upload failed"

\* C9 as stated: every failure raised during the run (fetch, upload or
\* export) ends the process with a non-zero status, and the success message
\* and status 0 occur only when the run raised no failure.
C9_Original ==
    pc = "exit" =>
        /\ (exc # "none" \/ UploadFailureLogged) => (status.code # 0 /\ echo = <<"Error">>)
        /\ status.code = 0 => (exc = "none" /\ ~UploadFailureLogged)

\* C9 (amended): every failure that leaves retrieve (fetch or export) is
\* caught by main, reported, and ends the process with a non-zero status; the
\* success message and status 0 occur exactly when retrieve returned. An
\* upload failure is caught and logged inside retrieve and changes neither.
C9_FailuresLeavingRetrieveAbort ==
    /\ status.exited <=> pc = "exit"
    /\ pc = "raised" => exc # "none" /\ ENABLED MainAbort
    /\ pc = "exit" =>
          /\ exc # "none" => (status = Exited(1) /\ echo = <<"Error">>)
          /\ exc = "none" =>
                (status = Exited(0) /\ echo = <<"Operation completed successfully!">>)
          /\ UploadFailureLogged => exc \in {"none", "OSError"}

\* A run that ended with the success message and status 0 after an upload failed.
C9_Witness ==
    /\ pc = "exit"
    /\ UploadFailureLogged
    /\ status = Exited(0)
    /\ echo = <<"Operation completed successfully!">>

\* ------------------------------------------ claims about the credentials
\* A setting is present when it is neither None nor empty.
Present(v) == v \notin {None, ""}

Direct == input # NoInput

\* The settings a direct construction has: the argument or the variable.
UrlGiven == Present(input.url) \/ Present(environ.SUPABASE_URL)
KeyGiven == Present(input.key) \/ Present(environ.SUPABASE_SERVICE_KEY)

EnvironGiven == Present(environ.SUPABASE_URL) /\ Present(environ.SUPABASE_SERVICE_KEY)

\* C11: no upload POST is issued unless both the endpoint URL and the secret
\* key are present. Constructing the uploader with either missing raises
\* ValueError at once: the upload method is never reached, nothing is posted,
\* logged or returned. In retrieve with either environment variable absent
\* the upload step posts nothing, logs no failure and raises nothing (no
\* uploader is constructed), and the run goes on to merge and export: any
\* exception is a failed fetch or a failed file write, and a run that
\* returned has merged the two tables and written the file asked for.
C11_NoPostWithoutCredentials ==
    /\ Direct =>
          /\ Posts # <<>> => UrlGiven /\ KeyGiven
          /\ ~(UrlGiven /\ KeyGiven) =>
                /\ pc # "uploader.upload"
                /\ pc # "construct" => exc = "ValueError"
                /\ log = <<>>
                /\ logged = <<>>
                /\ ret = NoResult
    /\ ~Direct =>
          /\ Posts # <<>> => EnvironGiven /\ args.upload_supabase
          /\ ~EnvironGiven =>
                /\ pc # "upload_trentino"
                /\ \A k \in DOMAIN logged : logged[k] = "Error saving file"
                /\ exc # "ValueError"
                /\ exc \notin {"none", "OSError"} =>
                      \/ exc = "IndexError" /\ Len(log) = 2
                      \/ Len(log) \in 1..4 /\ log[Len(log)].outcome = exc
                /\ pc = "concat" => exc = "none" /\ ENABLED Aggregate
                /\ pc \in {"export", "returned"} =>
                      /\ log[5].op = "concat"
                      /\ Len(df.rows) = Len(df1.rows) + Len(df2.rows)
                /\ pc = "returned" /\ args.output # None =>
                      file.written /\ file.table = df

\* Both ways with a setting missing: a construction that raised although the
\* URL was passed and the key variable was set to nothing usable, and a run
\* asked to upload that wrote its file with only the URL variable set.
C11_Witness ==
    \/ /\ Direct
       /\ pc = "raised"
       /\ input.url = "https://arg.supabase.co"
       /\ input.key = ""
       /\ environ.SUPABASE_URL # None
       /\ environ.SUPABASE_SERVICE_KEY = None
       /\ Len(input.df.rows) > 0
    \/ /\ ~Direct
       /\ pc = "exit"
       /\ args.upload_supabase
       /\ environ.SUPABASE_URL # None
       /\ environ.SUPABASE_SERVICE_KEY = None
       /\ file.written
       /\ Len(df.rows) > 0

\* ------------------------------------------------ claims about the dates
\* A date text the parser does not turn into a date (a missing cell included).
Unparseable(s) == ~DateutilParse(s).ok

\* The timestamps without an offset.
NaiveTimestamps == {"2025-09-29 11:20:00", "2025-09-30 00:00:00"}

FetchEnded == pc # "call"

\* C12: a measurement row whose date cannot be parsed never makes the fetch
\* fail; its date becomes the null marker and a parsed date is
\* timezone-naive. The Alto Adige table has no row with a null date (the
\* rows of lines without any missing value are all there, with the naive
\* date); the Trentino table keeps every matched line, with a null date
\* where the date could not be parsed.
C12_UnparseableDateBecomesNull ==
    FetchEnded =>
        /\ pc = "returned"
        /\ exc = "none"
        /\ AltoAdigeReturned =>
              /\ \A r \in Range(df1.rows) : r.cells["date"] \in NaiveTimestamps
              /\ \A i \in DOMAIN input.measurements, j \in DOMAIN input.stations :
                    LET row == AltoAdigeLineRow(input.measurements[i], input.stations[j])
                    IN  ( /\ input.measurements[i].SCODE = input.stations[j].SCODE
                          /\ \A c \in DOMAIN row : row[c] # NULL )
                        => \E r \in Range(df1.rows) : r.cells = row
        /\ TrentinoReturned =>
              /\ Len(df2.rows) = Len(MatchedLines)
              /\ \A i \in DOMAIN df2.rows :
                    IF Unparseable(MatchedLines[i].DataRilievo)
                    THEN df2.rows[i].cells["date"] = NULL
                    ELSE df2.rows[i].cells["date"] \in NaiveTimestamps

\* A fetch ended by the exception of a date field that is too large, although
\* another line of the feed had a date that parses.
C12_Witness ==
    /\ FetchEnded
    /\ pc = "raised"
    /\ exc = "OverflowError"
    /\ \E i \in DOMAIN input.measurements :
          input.fetcher = "alto_adige" /\ ~Unparseable(input.measurements[i].DATE)

\* ------------------------------------------- claims about the station name
\* A row has a name in a language when the column exists and the cell is
\* neither the null marker nor empty.
HasName(row, col) == Get(row, col) \notin {None, NULL, ""}

\* The name the preference order Italian, German, English, fallback gives.
PreferredName(row) ==
    IF HasName(row, "name_it") THEN row.cells["name_it"]
    ELSE IF HasName(row, "name_de") THEN row.cells["name_de"]
    ELSE IF HasName(row, "name_en") THEN row.cells["name_en"]
    ELSE "Station_" \o ToString(row.index)

\* The rows that upload turned into the records of its POST, in order.
RecordedRows == IF Posts = <<>> THEN <<>> ELSE ValidRows

\* C13: the station_name of every record of an upload is the Italian name of
\* its row if the row has one, otherwise the German name, otherwise the
\* English name, otherwise "Station_<rowIndex>"; a missing name (null marker
\* or empty) is never the station name.
C13_StationNamePreference ==
    UploadEnded =>
        \A i \in DOMAIN RecordedRows :
            /\ i \in DOMAIN Posts[1].body
            /\ Posts[1].body[i].station_name = PreferredName(RecordedRows[i])
            /\ Posts[1].body[i].station_name \notin {"nan", "None", ""}

\* A record named "nan" for a row whose Italian name is the null marker and
\* whose English name is present.
C13_Witness ==
    /\ UploadEnded
    /\ Len(RecordedRows) = 1
    /\ Get(RecordedRows[1], "name_it") = NULL
    /\ HasName(RecordedRows[1], "name_en")
    /\ Posts[1].body[1].station_name = "nan"

=============================================================================
